---- MODULE Spec2Model ----
(***************************************************************************)
(* A model of GherkinParser/glob_path.py: the glob-to-regex translation    *)
(* (_glob_pattern_to_re), Pattern.matches on the translated regex, and the *)
(* recursive generator iter_files walking a directory tree with symlinks.  *)
(*                                                                         *)
(* Strings are sequences of one-character strings, so that startswith,     *)
(* escaping and matching are computed character by character.              *)
(***************************************************************************)
EXTENDS Integers, Sequences, FiniteSets, TLC

\* ------------------------------------------------------------------ bounds
\* Longest glob pattern typed in SpecRe.
MaxPatLen == 6

\* ---------------------------------------------------------------- strings
RECURSIVE Join(_)
\* "/".join(names): the text of a relative path made of the names.
Join(names) ==
  IF names = <<>> THEN <<>>
  ELSE IF Len(names) = 1 THEN names[1]
  ELSE names[1] \o <<"/">> \o Join(Tail(names))

\* str.startswith
StartsWith(s, prefix) ==
  /\ Len(prefix) <= Len(s)
  /\ SubSeq(s, 1, Len(prefix)) = prefix

\* ------------------------------------------------- _glob_pattern_to_re
\* Every character of the regex text carries the branch of the translation
\* that wrote it (o); the text Python compiles is the sequence of the c's.
Tag(chars, origin) == [k \in 1..Len(chars) |-> [c |-> chars[k], o |-> origin]]

Text(tagged) == [k \in 1..Len(tagged) |-> tagged[k].c]

\* "?" translated to ".", "*" to "(.*)", "**/" to a group repeated one or
\* more times, a trailing "**" to "[^/]*".
ReQuestionAny == Tag(<<".">>, "q")
ReStarAny == Tag(<<"(", ".", "*", ")">>, "star")
ReGlobDirsOneOrMore == Tag(<<"(", "?", ":", "[", "^", "/", "]", "+", "/", ")", "+">>, "dirs")
ReGlobTailSegment == Tag(<<"[", "^", "/", "]", "*">>, "tail")
\* "**/" translated to a group whose segments may be empty.
ReGlobDirsEmptySegments == Tag(<<"(", "?", ":", "[", "^", "/", "]", "*", "/", ")", "*">>, "dirs")

RePrefix == Tag(<<"(", "?", "m", "s", ")", "^">>, "pre")
ReQuestion == Tag(<<"[", "^", "/", "]">>, "q")
ReGlobDirs == Tag(<<"(", "?", ":", "[", "^", "/", "]", "+", "/", ")", "*">>, "dirs")
ReGlobTail == Tag(<<".", "*">>, "tail")
ReStar == Tag(<<"(", "[", "^", "/", "]", "*", ")">>, "star")

EscapedChars == {"\\", "/", "$", "^", "+", ".", "(", ")", "=", "!", "|"}

RECURSIVE StarRunEnd(_, _)
\* The index of the last star of the run of stars that starts at i.
StarRunEnd(pattern, i) ==
  IF i + 1 <= Len(pattern) /\ pattern[i + 1] = "*" THEN StarRunEnd(pattern, i + 1) ELSE i

RECURSIVE CollapseRuns(_, _)
\* The loop that is to skip further "**/" runs; i is the (1-based) index the
\* code's i holds when the loop is entered.
CollapseRuns(pattern, i) ==
  IF /\ i + 2 < Len(pattern)
     /\ pattern[i] = "*" /\ pattern[i + 1] = "*" /\ pattern[i + 2] = "/"
  THEN CollapseRuns(pattern, i + 3)
  ELSE i

RECURSIVE GlobLoop(_, _, _, _)
\* The while loop over the pattern; i is 1-based (the code's i + 1).
GlobLoop(pattern, i, in_group, result) ==
  IF i > Len(pattern) THEN result \o Tag(<<"$">>, "end")
  ELSE
    LET c == pattern[i] IN
    IF c \in EscapedChars
      THEN GlobLoop(pattern, i + 1, in_group, result \o Tag(<<"\\", c>>, "esc"))
    ELSE IF c = "?"
      THEN GlobLoop(pattern, i + 1, in_group, result \o ReQuestion)
    ELSE IF c \in {"[", "]"}
      THEN GlobLoop(pattern, i + 1, in_group, result \o Tag(<<c>>, "bracket"))
    ELSE IF c = "{"
      THEN GlobLoop(pattern, i + 1, TRUE, result \o Tag(<<"(">>, "open"))
    ELSE IF c = "}"
      THEN GlobLoop(pattern, i + 1, FALSE, result \o Tag(<<")">>, "close"))
    ELSE IF c = ","
      THEN IF in_group
             THEN GlobLoop(pattern, i + 1, in_group, result \o Tag(<<"|">>, "alt"))
             ELSE GlobLoop(pattern, i + 1, in_group, result \o Tag(<<"\\", ",">>, "comma"))
    ELSE IF c = "*"
      THEN
        LET prev_none == (i = 1)
            prev_char == IF prev_none THEN "" ELSE pattern[i - 1]
            last == StarRunEnd(pattern, i)
            star_count == last - i + 1
            next_none == (last + 1 > Len(pattern))
            next_char == IF next_none THEN "" ELSE pattern[last + 1]
            is_globstar == /\ star_count > 1
                           /\ (prev_none \/ prev_char = "/")
                           /\ (next_none \/ next_char = "/")
        IN
        IF is_globstar
          THEN IF ~next_none /\ next_char = "/"
                 THEN GlobLoop(pattern, CollapseRuns(pattern, last + 1) + 1, in_group,
                               result \o ReGlobDirs)
                 ELSE GlobLoop(pattern, last + 1, in_group, result \o ReGlobTail)
          ELSE GlobLoop(pattern, last + 1, in_group, result \o ReStar)
    ELSE GlobLoop(pattern, i + 1, in_group, result \o Tag(<<c>>, "lit"))

\* _glob_pattern_to_re(pattern), with the origin of every character.
GlobToRe(pattern) == GlobLoop(pattern, 1, FALSE, RePrefix)

\* ------------------------------------------------------------ re.compile
\* The syntax of the regular expressions Python's re module accepts, for the
\* constructs the translation can write: literals, escapes, "." "^" "$",
\* character sets, groups "(...)" and "(?:...)" with "|", the flag group
\* "(?ms)" at the start, and the quantifiers "*" "+" "?". A parse gives
\* [ok, node(s), i]: ok is FALSE where re.compile raises re.error.
ReFail == [ok |-> FALSE, items |-> <<>>, i |-> 0]

Quantifiers == {"*", "+", "?"}

RECURSIVE ParseSetItems(_, _, _, _)
\* The members of a character set from position i on; first: no member has
\* been read yet, so that a "]" is a member and does not close the set.
ParseSetItems(t, i, first, cs) ==
  IF i > Len(t) THEN [ok |-> FALSE, cs |-> {}, i |-> 0]
  ELSE IF t[i].c = "]" /\ ~first THEN [ok |-> TRUE, cs |-> cs, i |-> i + 1]
  ELSE IF t[i].c = "\\"
    THEN IF i + 1 > Len(t) THEN [ok |-> FALSE, cs |-> {}, i |-> 0]
         ELSE ParseSetItems(t, i + 2, FALSE, cs \cup {t[i + 1].c})
  ELSE ParseSetItems(t, i + 1, FALSE, cs \cup {t[i].c})

\* A character set "[...]" or "[^...]" opening at position i.
ParseSet(t, i) ==
  LET neg == i + 1 <= Len(t) /\ t[i + 1].c = "^"
      r == ParseSetItems(t, IF neg THEN i + 2 ELSE i + 1, TRUE, {})
  IN IF r.ok
       THEN [ok |-> TRUE, node |-> [k |-> "set", neg |-> neg, cs |-> r.cs], i |-> r.i]
       ELSE [ok |-> FALSE, node |-> [k |-> "none"], i |-> 0]

RECURSIVE ParseItems(_, _, _), ParseBranches(_, _, _), ParseGroup(_, _)
\* The items of one branch from position i on, up to "|", ")" or the end.
ParseItems(t, i, items) ==
  IF i > Len(t) \/ t[i].c \in {"|", ")"} THEN [ok |-> TRUE, items |-> items, i |-> i]
  ELSE
    LET c == t[i].c IN
    IF c = "\\"
      THEN IF i + 1 > Len(t) THEN ReFail
           ELSE ParseItems(t, i + 2, Append(items, [k |-> "lit", c |-> t[i + 1].c]))
    ELSE IF c = "["
      THEN LET r == ParseSet(t, i)
           IN IF r.ok THEN ParseItems(t, r.i, Append(items, r.node)) ELSE ReFail
    ELSE IF c \in Quantifiers
      THEN IF items = <<>> THEN ReFail               \* nothing to repeat
           ELSE LET last == items[Len(items)] IN
                IF last.k \in {"bol", "eol", "rep"} THEN ReFail
                ELSE ParseItems(t, i + 1,
                       [items EXCEPT ![Len(items)] =
                          [k |-> "rep", min |-> IF c = "+" THEN 1 ELSE 0,
                           many |-> c # "?", body |-> last]])
    ELSE IF c = "("
      THEN LET r == ParseGroup(t, i)
           IN IF r.ok THEN ParseItems(t, r.i, items \o r.items) ELSE ReFail
    ELSE IF c = "." THEN ParseItems(t, i + 1, Append(items, [k |-> "any"]))
    ELSE IF c = "^" THEN ParseItems(t, i + 1, Append(items, [k |-> "bol"]))
    ELSE IF c = "$" THEN ParseItems(t, i + 1, Append(items, [k |-> "eol"]))
    ELSE ParseItems(t, i + 1, Append(items, [k |-> "lit", c |-> c]))

\* The branches of a group (or of the whole expression) from position i on.
ParseBranches(t, i, branches) ==
  LET r == ParseItems(t, i, <<>>) IN
  IF ~r.ok THEN ReFail
  ELSE IF r.i <= Len(t) /\ t[r.i].c = "|"
    THEN ParseBranches(t, r.i + 1, Append(branches, r.items))
  ELSE [ok |-> TRUE, items |-> Append(branches, r.items), i |-> r.i]

\* What opens at the "(" of position i: the flag group "(?ms)" (no item; only
\* at the start of the expression), "(?:...)" or a capturing group. The group
\* keeps the origin of its "(".
ParseGroup(t, i) ==
  LET flags == i + 1 <= Len(t) /\ t[i + 1].c = "?"
      from == IF flags THEN i + 3 ELSE i + 1
  IN
  IF flags /\ (i + 2 > Len(t) \/ t[i + 2].c \notin {":", "m", "s"}) THEN ReFail
  ELSE IF flags /\ t[i + 2].c # ":"
    THEN IF i = 1 /\ Len(t) >= 5 /\ t[3].c = "m" /\ t[4].c = "s" /\ t[5].c = ")"
           THEN [ok |-> TRUE, items |-> <<>>, i |-> 6]
           ELSE ReFail
  ELSE
    LET r == ParseBranches(t, from, <<>>) IN
    IF ~r.ok \/ r.i > Len(t) \/ t[r.i].c # ")" THEN ReFail   \* missing )
    ELSE [ok |-> TRUE,
          items |-> << [k |-> "grp", o |-> t[i].o, branches |-> r.items] >>,
          i |-> r.i + 1]

\* re.compile(text): [ok, branches]; a ")" left over is unbalanced.
ReCompile(t) ==
  LET r == ParseBranches(t, 1, <<>>) IN
  IF r.ok /\ r.i = Len(t) + 1
    THEN [ok |-> TRUE, branches |-> r.items]
    ELSE [ok |-> FALSE, branches |-> <<>>]

\* --------------------------------------------------------- re.fullmatch
\* The positions a match of a node can end at, started at any position of
\* from (positions run from 1 to Len(s) + 1). The flags "(?ms)" let "." match
\* every character and "^" "$" match at line breaks too.
RECURSIVE EndsNode(_, _, _), EndsItems(_, _, _), EndsBranches(_, _, _), EndsStar(_, _, _)
EndsNode(n, s, from) ==
  IF n.k = "lit" THEN {j + 1 : j \in {x \in from : x <= Len(s) /\ s[x] = n.c}}
  ELSE IF n.k = "any" THEN {j + 1 : j \in {x \in from : x <= Len(s)}}
  ELSE IF n.k = "set"
    THEN {j + 1 : j \in {x \in from : x <= Len(s) /\ ((s[x] \in n.cs) # n.neg)}}
  ELSE IF n.k = "bol" THEN {x \in from : x = 1 \/ s[x - 1] = "\n"}
  ELSE IF n.k = "eol" THEN {x \in from : x = Len(s) + 1 \/ s[x] = "\n"}
  ELSE IF n.k = "grp" THEN EndsBranches(n.branches, s, from)
  ELSE \* "rep"
    LET once == EndsNode(n.body, s, from)
        least == IF n.min = 0 THEN from ELSE once
    IN IF n.many THEN EndsStar(n.body, s, least) ELSE least \cup once

EndsItems(items, s, from) ==
  IF items = <<>> \/ from = {} THEN from
  ELSE EndsItems(Tail(items), s, EndsNode(items[1], s, from))

EndsBranches(branches, s, from) ==
  IF branches = <<>> THEN {}
  ELSE EndsItems(branches[1], s, from) \cup EndsBranches(Tail(branches), s, from)

EndsStar(body, s, reached) ==
  LET more == reached \cup EndsNode(body, s, reached)
  IN IF more = reached THEN reached ELSE EndsStar(body, s, more)

\* compiled.fullmatch(s) is not None
FullMatch(compiled, s) == (Len(s) + 1) \in EndsBranches(compiled.branches, s, {1})

\* Pattern(pattern).matches(path), path being the text of the path with "/"
\* as separator; FALSE stands for the re.error of a pattern that does not
\* compile.
Matches(pattern, path) ==
  LET compiled == ReCompile(GlobToRe(pattern))
  IN compiled.ok /\ FullMatch(compiled, path)

\* ------------------------------------------------------- the file system
\* Directories and regular files are numbered; a directory's number stands
\* for its (st_dev, st_ino). The real tree is
\*   /            0        /p/f      6
\*   /p           1        /p/a/g    7
\*   /p/a         2        /p/b/h    8
\*   /p/b         3        /p/a/c/k  9
\*   /p/a/c       4        /pe/s     10
\*   /pe          5
\* and a directory may also hold one symlink, named l.
Dirs == 0..5
Files == 6..10
\* What a symlink leads to when it is no node: nothing (a dangling link), or
\* a place whose stat raises PermissionError.
Dangling == 0 - 1
Denied == 0 - 2

ParentOf == <<0, 1, 1, 2, 0, 1, 2, 3, 4, 5>>

NameOf == << <<"p">>, <<"a">>, <<"b">>, <<"c">>, <<"p", "e">>,
             <<"f">>, <<"g">>, <<"h">>, <<"k">>, <<"s">> >>

LinkName == <<"l">>

RealChildren(d) ==
  CASE d = 0 -> <<1, 5>>
    [] d = 1 -> <<6, 2, 3>>
    [] d = 2 -> <<7, 4>>
    [] d = 3 -> <<8>>
    [] d = 4 -> <<9>>
    [] d = 5 -> <<10>>

RECURSIVE RealPath(_)
\* The names of the real (symlink-free) absolute path of a node.
RealPath(n) == IF n = 0 THEN <<>> ELSE Append(RealPath(ParentOf[n]), NameOf[n])

Reverse(seq) == [k \in 1..Len(seq) |-> seq[Len(seq) + 1 - k]]

\* What path.iterdir() gives for directory d: its entries in the order of
\* enumeration. links: the symlinks of the tree, [dir, target]; rev, linkFirst:
\* the enumeration order.
DirEntries(d, links, rev, linkFirst) ==
  LET kids == RealChildren(d)
      real == [k \in 1..Len(kids) |->
                 [name |-> NameOf[kids[k]],
                  kind |-> IF kids[k] \in Dirs THEN "dir" ELSE "file",
                  node |-> kids[k]]]
      ordered == IF rev THEN Reverse(real) ELSE real
      here == {l \in links : l.dir = d}
      link == IF here = {} THEN <<>>
              ELSE << [name |-> LinkName, kind |-> "link",
                       node |-> (CHOOSE l \in here : TRUE).target] >>
  IN IF linkFirst THEN link \o ordered ELSE ordered \o link

\* ------------------------------------------------------------ pathlib
\* A Path: whether it is absolute, and its names. The working directory of
\* the process is "/".
MkPath(abs, names) == [abs |-> abs, names |-> names]

\* path / name
Child(path, name) == [path EXCEPT !.names = Append(@, name)]

\* str(path), "/" being os.sep
PathStr(path) ==
  IF path.abs THEN (IF path.names = <<>> THEN <<"/">> ELSE <<"/">> \o Join(path.names))
  ELSE (IF path.names = <<>> THEN <<".">> ELSE Join(path.names))

\* path.absolute()
Absolute(path) == [path EXCEPT !.abs = TRUE]

\* f.relative_to(_base_path), f being below _base_path
RelativeTo(f, base) ==
  MkPath(FALSE, SubSeq(f.names, Len(base.names) + 1, Len(f.names)))

\* Path(...).resolve() of a path that leads to node n
Resolved(n) == MkPath(TRUE, RealPath(n))

RECURSIVE Segments(_, _)
\* text.split("/"), cur being the segment read so far
Segments(text, cur) ==
  IF text = <<>> THEN <<cur>>
  ELSE IF Head(text) = "/" THEN <<cur>> \o Segments(Tail(text), <<>>)
  ELSE Segments(Tail(text), Append(cur, Head(text)))

\* str(Path(text)): empty and "." segments are dropped, so repeated and
\* trailing separators go; a leading "/" is kept, exactly two leading
\* separators are kept as "//"; nothing left is ".".
StrPath(text) ==
  LET segs == Segments(text, <<>>)
      parts == SelectSeq(segs, LAMBDA g : g # <<>> /\ g # <<".">>)
      root == IF StartsWith(text, <<"/", "/">>) /\ ~StartsWith(text, <<"/", "/", "/">>)
                THEN <<"/", "/">>
              ELSE IF StartsWith(text, <<"/">>) THEN <<"/">>
              ELSE <<>>
  IN IF root = <<>> /\ parts = <<>> THEN <<".">> ELSE root \o Join(parts)

\* globmatches(pattern, path), path a str: "error" where Pattern(pattern)
\* raises re.error, else whether the text pathlib gives for path matches.
GlobMatches(pattern, text) ==
  LET compiled == ReCompile(GlobToRe(pattern))
  IN IF ~compiled.ok THEN "error" ELSE FullMatch(compiled, StrPath(text))

\* ------------------------------------------------------------------ state
\* Two top-level calls of iter_files on one tree, w = 1 and w = 2, the second
\* pulled after the first is exhausted.
Walkers == {1, 2}

VARIABLES
  tree,      \* directory -> its entries in enumeration order
  arg,       \* walker -> the arguments of its call and what fails for it
  state,     \* walker -> "idle", "running", "done" or "raised"
  stack,     \* walker -> the suspended generator activations, outermost first
  visited,   \* walker -> its _visited set
  yielded,   \* walker -> what the caller has received, in order
  listed,    \* walker -> the directories whose iterdir() was read, in order
  pattern,   \* the glob pattern being typed (SpecRe)
  regex,     \* its translation, once compiled
  phase,     \* "typing", "compiled" or "matched" ("off" where no pattern is typed)
  subject,   \* the path text being typed (SpecMatch)
  result,    \* what matching gave, once matched
  hooks_enabled,      \* Library._hooks_enabled
  in_call_hooks,      \* Library._in_call_hooks
  hookStack,          \* the running call_hooks and hook keyword activations
  keywords,           \* how many keywords carry the hook tag of the event
  run_keyword_count,  \* hook keywords executed since the outermost call began
  reentry_count,      \* calls of call_hooks made by hook keywords since then
  outerCalls,         \* outermost calls of call_hooks made so far
  ended               \* how each outermost call that has ended did: "return" or "raise"

walkVars == <<tree, arg, state, stack, visited, yielded, listed>>
reVars == <<pattern, regex, phase, subject, result>>
hookVars == <<hooks_enabled, in_call_hooks, hookStack, keywords, run_keyword_count,
              reentry_count, outerCalls, ended>>
vars == <<walkVars, reVars, hookVars>>

\* max_depth=None
NoDepth == 0 - 1

\* patterns=None, and a list of patterns
NonePatterns == [none |-> TRUE, list |-> <<>>]
Patterns(list) == [none |-> FALSE, list |-> list]

\* What fails for a walker: nothing; "stat": path.stat() of directory node
\* raises OSError; "list": iterdir() of directory node raises
\* PermissionError; "nosearch": the entries of directory node cannot be
\* inspected (lstat and stat of them raise PermissionError); "empty": the
\* directory holds no entry (the run a failing one is compared with).
NoErr == [kind |-> "none", node |-> 0]

StatFails(w, d) == arg[w].err.kind = "stat" /\ arg[w].err.node = d
ListFails(w, d) == arg[w].err.kind = "list" /\ arg[w].err.node = d
NoSearch(w, d) == arg[w].err.kind = "nosearch" /\ arg[w].err.node = d
SeenEmpty(w, d) == arg[w].err.kind = "empty" /\ arg[w].err.node = d

\* any(p.matches(rel) for p in patterns), rel a relative Path
AnyMatches(list, rel) == \E k \in 1..Len(list) : Matches(list[k], PathStr(rel))

\* Enter without the return on an identity already in _visited.
EnterNoCycleCheck(w, path, d, depth, vis) ==
  IF (arg[w].max_depth # NoDepth /\ depth >= arg[w].max_depth) \/ ListFails(w, d)
    THEN [vis |-> vis \cup {d}, frames |-> <<>>, listed |-> <<>>]
    ELSE [vis |-> vis \cup {d},
          frames |-> << [path |-> path, node |-> d, depth |-> depth, rest |-> tree[d]] >>,
          listed |-> << [node |-> d, depth |-> depth, path |-> path] >>]

\* Enter that never records the identity in _visited.
EnterForgetsMark(w, path, d, depth, vis) ==
  IF (arg[w].max_depth # NoDepth /\ depth >= arg[w].max_depth) \/ ListFails(w, d)
    THEN [vis |-> vis, frames |-> <<>>, listed |-> <<>>]
    ELSE [vis |-> vis,
          frames |-> << [path |-> path, node |-> d, depth |-> depth, rest |-> tree[d]] >>,
          listed |-> << [node |-> d, depth |-> depth, path |-> path] >>]

\* Enter whose depth guard is _depth > max_depth.
EnterDepthOffByOne(w, path, d, depth, vis) ==
  IF d \in vis THEN [vis |-> vis, frames |-> <<>>, listed |-> <<>>]
  ELSE IF arg[w].max_depth # NoDepth /\ depth > arg[w].max_depth
    THEN [vis |-> vis \cup {d}, frames |-> <<>>, listed |-> <<>>]
  ELSE [vis |-> vis \cup {d},
        frames |-> << [path |-> path, node |-> d, depth |-> depth, rest |-> tree[d]] >>,
        listed |-> << [node |-> d, depth |-> depth, path |-> path] >>]

\* -------------------------------------------------------------- iter_files
\* The set keeps only the identity of the directory entered last.
MarkLastOnly(vis, d) == {d}

\* _visited.add(key)
Mark(vis, d) == vis \cup {d}

\* The start of an activation for directory node d reached as path at depth:
\* the identity check, the depth guard and the listing. Gives the visited set
\* after it and the activation to suspend, if the directory is listed.
Enter(w, path, d, depth, vis) ==
  IF ~StatFails(w, d) /\ d \in vis THEN [vis |-> vis, frames |-> <<>>, listed |-> <<>>]
  ELSE
    LET vis2 == IF StatFails(w, d) THEN vis ELSE Mark(vis, d) IN
    IF arg[w].max_depth # NoDepth /\ depth >= arg[w].max_depth
      THEN [vis |-> vis2, frames |-> <<>>, listed |-> <<>>]
    ELSE IF ListFails(w, d)
      THEN [vis |-> vis2, frames |-> <<>>, listed |-> <<>>]
    ELSE [vis |-> vis2,
          frames |-> << [path |-> path, node |-> d, depth |-> depth,
                         rest |-> IF SeenEmpty(w, d) THEN <<>> ELSE tree[d]] >>,
          listed |-> << [node |-> d, depth |-> depth, path |-> path] >>]

RECURSIVE Unwind(_)
\* Activations whose loop has no entry left return, innermost first.
Unwind(frames) ==
  IF frames # <<>> /\ frames[Len(frames)].rest = <<>>
    THEN Unwind(SubSeq(frames, 1, Len(frames) - 1))
    ELSE frames

\* The symlink boundary check: the resolved target is the resolved base or
\* its text starts with the text of the resolved base and os.sep.
InsideBase(resolved_target, resolved_base) ==
  \/ StartsWith(PathStr(resolved_target), PathStr(resolved_base) \o <<"/">>)
  \/ resolved_target = resolved_base

\* Decide with the exclude patterns applied to files only: an excluded
\* directory is descended into.
DecideIgnoreFilesOnly(w, fr, e) ==
  LET a == arg[w]
      f == Child(fr.path, e.name)
      rel == RelativeTo(f, a.root)
      symlink == e.kind = "link"
      lstatRaises == NoSearch(w, fr.node)
      statRaises == NoSearch(w, fr.node) \/ (symlink /\ e.node = Denied)
      is_dir == e.kind = "dir" \/ (symlink /\ e.node \in Dirs)
      is_file == e.kind = "file" \/ (symlink /\ e.node \in Files)
  IN
  IF ~a.follow_symlinks /\ lstatRaises THEN "skip"
  ELSE IF ~a.follow_symlinks /\ symlink /\ (statRaises \/ is_dir) THEN "skip"
  ELSE IF /\ ~a.follow_symlinks /\ symlink /\ is_file
          /\ ~InsideBase(Resolved(e.node), Resolved(a.rootNode)) THEN "skip"
  ELSE IF statRaises THEN "abort"
  ELSE IF is_dir THEN "descend"
  ELSE IF ~a.ignore_patterns.none /\ AnyMatches(a.ignore_patterns.list, rel) THEN "skip"
  ELSE IF a.patterns.none \/ AnyMatches(a.patterns.list, rel) THEN "yield"
  ELSE "skip"

\* Decide without the except clauses: an OSError of lstat or stat reaches
\* the caller.
DecideNoExcept(w, fr, e) ==
  LET a == arg[w]
      f == Child(fr.path, e.name)
      rel == RelativeTo(f, a.root)
      symlink == e.kind = "link"
      lstatRaises == NoSearch(w, fr.node)
      statRaises == NoSearch(w, fr.node) \/ (symlink /\ e.node = Denied)
      is_dir == e.kind = "dir" \/ (symlink /\ e.node \in Dirs)
      is_file == e.kind = "file" \/ (symlink /\ e.node \in Files)
  IN
  IF ~a.follow_symlinks /\ lstatRaises THEN "raise"
  ELSE IF ~a.follow_symlinks /\ symlink /\ statRaises THEN "raise"
  ELSE IF ~a.follow_symlinks /\ symlink /\ is_dir THEN "skip"
  ELSE IF /\ ~a.follow_symlinks /\ symlink /\ is_file
          /\ ~InsideBase(Resolved(e.node), Resolved(a.rootNode)) THEN "skip"
  ELSE IF ~a.ignore_patterns.none /\ AnyMatches(a.ignore_patterns.list, rel) THEN "skip"
  ELSE IF statRaises THEN "raise"
  ELSE IF is_dir THEN "descend"
  ELSE IF a.patterns.none \/ AnyMatches(a.patterns.list, rel) THEN "yield"
  ELSE "skip"

\* Decide without the skip of symlinked directories: with
\* follow_symlinks=false a symlink to a directory is descended into.
DecideKeepsSymlinkDirs(w, fr, e) ==
  LET a == arg[w]
      f == Child(fr.path, e.name)
      rel == RelativeTo(f, a.root)
      symlink == e.kind = "link"
      lstatRaises == NoSearch(w, fr.node)
      statRaises == NoSearch(w, fr.node) \/ (symlink /\ e.node = Denied)
      is_dir == e.kind = "dir" \/ (symlink /\ e.node \in Dirs)
      is_file == e.kind = "file" \/ (symlink /\ e.node \in Files)
  IN
  IF ~a.follow_symlinks /\ lstatRaises THEN "skip"
  ELSE IF ~a.follow_symlinks /\ symlink /\ statRaises THEN "skip"
  ELSE IF /\ ~a.follow_symlinks /\ symlink /\ is_file
          /\ ~InsideBase(Resolved(e.node), Resolved(a.rootNode)) THEN "skip"
  ELSE IF ~a.ignore_patterns.none /\ AnyMatches(a.ignore_patterns.list, rel) THEN "skip"
  ELSE IF statRaises THEN "abort"
  ELSE IF is_dir THEN "descend"
  ELSE IF a.patterns.none \/ AnyMatches(a.patterns.list, rel) THEN "yield"
  ELSE "skip"

\* What the loop body does with entry e of the activation fr:
\* "skip" (continue, or nothing to yield), "abort" (an OSError leaves the
\* loop for the outer except), "descend" or "yield". ("raise", an exception
\* that reaches the caller, is what no branch of the code gives.)
Decide(w, fr, e) ==
  LET a == arg[w]
      f == Child(fr.path, e.name)
      rel == RelativeTo(f, a.root)
      symlink == e.kind = "link"
      lstatRaises == NoSearch(w, fr.node)
      statRaises == NoSearch(w, fr.node) \/ (symlink /\ e.node = Denied)
      is_dir == e.kind = "dir" \/ (symlink /\ e.node \in Dirs)
      is_file == e.kind = "file" \/ (symlink /\ e.node \in Files)
      resolved_base == Resolved(a.rootNode)
  IN
  IF ~a.follow_symlinks /\ lstatRaises THEN "skip"
  ELSE IF ~a.follow_symlinks /\ symlink /\ (statRaises \/ is_dir) THEN "skip"
  ELSE IF /\ ~a.follow_symlinks /\ symlink /\ is_file
          /\ ~InsideBase(Resolved(e.node), resolved_base) THEN "skip"
  ELSE IF ~a.ignore_patterns.none /\ AnyMatches(a.ignore_patterns.list, rel) THEN "skip"
  ELSE IF statRaises THEN "abort"
  ELSE IF is_dir THEN "descend"
  ELSE IF a.patterns.none \/ AnyMatches(a.patterns.list, rel) THEN "yield"
  ELSE "skip"

\* YieldPath that yields the path relative to the root.
YieldPathRootRelative(w, f) ==
  IF arg[w].absolute THEN Absolute(f) ELSE RelativeTo(f, arg[w].root)

\* The path a file is yielded as.
YieldPath(w, f) == IF arg[w].absolute THEN Absolute(f) ELSE f

\* The _visited of a top-level call that the other call's set has been put in
\* place of (one set kept across calls).
SharedVisited(w) == visited[3 - w]

\* The _visited a top-level call starts with: _visited is None, so a new set.
FreshVisited(w) == {}

\* next() on a generator not yet started: the activation of the root.
Start(w) ==
  /\ state[w] = "idle"
  /\ \E r \in {Enter(w, arg[w].root, arg[w].rootNode, 0, FreshVisited(w))} :
       \E frames \in {Unwind(r.frames)} :
         /\ visited' = [visited EXCEPT ![w] = r.vis]
         /\ stack' = [stack EXCEPT ![w] = frames]
         /\ listed' = [listed EXCEPT ![w] = r.listed]
         /\ state' = [state EXCEPT ![w] = IF frames = <<>> THEN "done" ELSE "running"]
  /\ UNCHANGED <<tree, arg, yielded, reVars, hookVars>>

\* The second call is made when the first is exhausted.
Call(w) ==
  /\ w = 2 => state[1] \in {"done", "raised"}
  /\ Start(w)

\* The record of a yielded file: the path the caller receives, the node it
\* leads to, whether the entry is a symlink, and the names walked from the root.
Yield(w, f, e) ==
  [path |-> YieldPath(w, f), node |-> e.node, link |-> e.kind = "link",
   trail |-> RelativeTo(f, arg[w].root).names]

\* The activations after the loop body has dealt with the entry as what says.
After(w, what, r) ==
  LET n == Len(stack[w])
      fr == stack[w][n]
      here == [fr EXCEPT !.rest = IF what = "abort" THEN <<>> ELSE Tail(fr.rest)]
  IN IF what = "raise" THEN <<>>
     ELSE Unwind(Append(SubSeq(stack[w], 1, n - 1), here) \o r.frames)

\* One round of the for loop of the innermost activation: its next entry is
\* skipped, yielded or descended into, and exhausted activations return.
Step(w) ==
  /\ state[w] = "running"
  /\ \E fr \in {stack[w][Len(stack[w])]} :
     \E e \in {Head(fr.rest)} :
     \E f \in {Child(fr.path, e.name)} :
     \E what \in {Decide(w, fr, e)} :
     \E r \in {IF what = "descend"
                 THEN Enter(w, f, e.node, fr.depth + 1, visited[w])
                 ELSE [vis |-> visited[w], frames |-> <<>>, listed |-> <<>>]} :
     \E frames \in {After(w, what, r)} :
        /\ visited' = [visited EXCEPT ![w] = r.vis]
        /\ listed' = [listed EXCEPT ![w] = @ \o r.listed]
        /\ stack' = [stack EXCEPT ![w] = frames]
        /\ yielded' = [yielded EXCEPT ![w] =
              IF what = "yield" THEN Append(@, Yield(w, f, e)) ELSE @]
        /\ state' = [state EXCEPT ![w] =
              IF what = "raise" THEN "raised"
              ELSE IF frames = <<>> THEN "done" ELSE "running"]
  /\ UNCHANGED <<tree, arg, reVars, hookVars>>

\* ------------------------------------------------------ Pattern(pattern)
\* The characters glob patterns are typed from in SpecRe.
Alphabet == {"{", "}", ",", "[", "/", "*", "a"}

\* The caller writes one more character of the pattern.
Type(c) ==
  /\ phase = "typing"
  /\ Len(pattern) < MaxPatLen
  /\ pattern' = Append(pattern, c)
  /\ UNCHANGED <<regex, phase, subject, result, walkVars, hookVars>>

\* Pattern.__init__: the pattern is translated.
Compile ==
  /\ phase = "typing"
  /\ regex' = GlobToRe(pattern)
  /\ phase' = "compiled"
  /\ UNCHANGED <<pattern, subject, result, walkVars, hookVars>>

\* ----------------------------------------------- globmatches(pattern, path)
MaxGlobLen == 4
MaxPathLen == 4

\* The characters patterns and path texts are typed from in SpecMatch.
GlobAlphabet == {"a", "/", "?", "*"}
PathAlphabet == {"a", "/", "."}

\* "**/" written n times
RECURSIVE GlobstarRuns(_)
GlobstarRuns(n) == IF n = 0 THEN <<>> ELSE <<"*", "*", "/">> \o GlobstarRuns(n - 1)

\* The caller writes one more character of the pattern.
TypeGlob(c) ==
  /\ phase = "typing"
  /\ Len(pattern) < MaxGlobLen
  /\ pattern' = Append(pattern, c)
  /\ UNCHANGED <<regex, phase, subject, result, walkVars, hookVars>>

\* The caller writes one more character of the path text.
TypePath(c) ==
  /\ phase = "typing"
  /\ Len(subject) < MaxPathLen
  /\ subject' = Append(subject, c)
  /\ UNCHANGED <<pattern, regex, phase, result, walkVars, hookVars>>

\* The caller matches the path text against the pattern, and against the
\* pattern with one, two and three "**/" written before it: result[n] is
\* globmatches("**/" * n + pattern, subject).
Match ==
  /\ phase = "typing"
  /\ phase' = "matched"
  /\ regex' = GlobToRe(pattern)
  /\ result' = [n \in 0..3 |-> GlobMatches(GlobstarRuns(n) \o pattern, subject)]
  /\ UNCHANGED <<pattern, subject, walkVars, hookVars>>

NextMatch ==
  \/ \E c \in GlobAlphabet : TypeGlob(c)
  \/ \E c \in PathAlphabet : TypePath(c)
  \/ Match

NextRe == (\E c \in Alphabet : Type(c)) \/ Compile

Next == \E w \in Walkers : Call(w) \/ Step(w)

\* ------------------------------------------------- Library.call_hooks
\* The Library module is not among the sources; call_hooks is modelled from
\* what its tests state: it does nothing when hooks are disabled, returns at
\* once when _in_call_hooks is set, else sets _in_call_hooks, runs the
\* keywords that carry the hook tag of the event through run_keyword, and
\* clears _in_call_hooks when it ends, also when a keyword raises.
MaxKeywords == 2
MaxReentries == 2
MaxOuterCalls == 3

\* call_hooks without the test of _in_call_hooks.
CallHooksNoGuard(st) ==
  IF ~hooks_enabled
    THEN [guard |-> in_call_hooks, stack |-> st]
    ELSE [guard |-> TRUE, stack |-> Append(st, [k |-> "call_hooks", left |-> keywords])]

\* The entry of call_hooks while the activations st are running: the guard
\* and the activations after it.
CallHooks(st) ==
  IF ~hooks_enabled \/ in_call_hooks
    THEN [guard |-> in_call_hooks, stack |-> st]
    ELSE [guard |-> TRUE, stack |-> Append(st, [k |-> "call_hooks", left |-> keywords])]

\* The innermost running activation.
Top == hookStack[Len(hookStack)]

\* The listener calls call_hooks while no call of it is running.
HookCall ==
  /\ hookStack = <<>>
  /\ outerCalls < MaxOuterCalls
  /\ \E r \in {CallHooks(<<>>)} :
       /\ in_call_hooks' = r.guard
       /\ hookStack' = r.stack
       /\ ended' = IF r.stack = <<>> THEN Append(ended, "return") ELSE ended
  /\ outerCalls' = outerCalls + 1
  /\ run_keyword_count' = 0
  /\ reentry_count' = 0
  /\ UNCHANGED <<hooks_enabled, keywords, walkVars, reVars>>

\* call_hooks runs the next keyword that carries the hook tag.
HookRunKeyword ==
  /\ hookStack # <<>> /\ Top.k = "call_hooks" /\ Top.left > 0
  /\ hookStack' = Append([hookStack EXCEPT ![Len(hookStack)].left = @ - 1], [k |-> "keyword", left |-> 0])
  /\ run_keyword_count' = run_keyword_count + 1
  /\ UNCHANGED <<hooks_enabled, in_call_hooks, keywords, reentry_count, outerCalls, ended,
                 walkVars, reVars>>

\* The running hook keyword calls back into call_hooks.
HookReenter ==
  /\ hookStack # <<>> /\ Top.k = "keyword"
  /\ reentry_count < MaxReentries
  /\ \E r \in {CallHooks(hookStack)} :
       /\ in_call_hooks' = r.guard
       /\ hookStack' = r.stack
  /\ reentry_count' = reentry_count + 1
  /\ UNCHANGED <<hooks_enabled, keywords, run_keyword_count, outerCalls, ended,
                 walkVars, reVars>>

\* The running hook keyword returns.
HookKeywordReturn ==
  /\ hookStack # <<>> /\ Top.k = "keyword"
  /\ hookStack' = SubSeq(hookStack, 1, Len(hookStack) - 1)
  /\ UNCHANGED <<hooks_enabled, in_call_hooks, keywords, run_keyword_count, reentry_count,
                 outerCalls, ended, walkVars, reVars>>

\* A raising hook keyword whose call_hooks does not clear the guard.
HookKeywordRaiseNoFinally ==
  /\ hookStack # <<>> /\ Top.k = "keyword"
  /\ hookStack' = <<>>
  /\ ended' = Append(ended, "raise")
  /\ UNCHANGED <<hooks_enabled, in_call_hooks, keywords, run_keyword_count, reentry_count,
                 outerCalls, walkVars, reVars>>

\* The running hook keyword raises: the exception leaves every running
\* activation, and call_hooks clears the guard on its way out.
HookKeywordRaise ==
  /\ hookStack # <<>> /\ Top.k = "keyword"
  /\ hookStack' = <<>>
  /\ in_call_hooks' = FALSE
  /\ ended' = Append(ended, "raise")
  /\ UNCHANGED <<hooks_enabled, keywords, run_keyword_count, reentry_count, outerCalls,
                 walkVars, reVars>>

\* call_hooks has run every keyword: it clears the guard and returns.
HookReturn ==
  /\ hookStack # <<>> /\ Top.k = "call_hooks" /\ Top.left = 0
  /\ hookStack' = SubSeq(hookStack, 1, Len(hookStack) - 1)
  /\ in_call_hooks' = FALSE
  /\ ended' = IF Len(hookStack) = 1 THEN Append(ended, "return") ELSE ended
  /\ UNCHANGED <<hooks_enabled, keywords, run_keyword_count, reentry_count, outerCalls,
                 walkVars, reVars>>

NextHooks ==
  \/ HookCall \/ HookRunKeyword \/ HookReenter
  \/ HookKeywordReturn \/ HookKeywordRaise \/ HookReturn

\* Two generators alive at once, pulled in any order.
NextTwo == \E w \in Walkers : Start(w) \/ Step(w)

\* ------------------------------------------------------ bounded inputs
\* Most symlinks in a tree.
MaxLinks == 2
\* Largest max_depth tried.
MaxDepth == 3

RECURSIVE LinkSets(_, _)
\* The sets of at most n symlinks drawn from all, no two in one directory.
LinkSets(all, n) ==
  IF n = 0 THEN {{}}
  ELSE LET less == LinkSets(all, n - 1)
       IN less \cup {L \cup {l} : <<L, l>> \in
                       {x \in less \X all : \A m \in x[1] : m.dir # x[2].dir}}

LinksIn(dirs, targets) == {[dir |-> d, target |-> t] : d \in dirs, t \in targets}

TreeOf(links, rev, linkFirst) == [d \in Dirs |-> DirEntries(d, links, rev, linkFirst)]

RootP == MkPath(TRUE, << <<"p">> >>)       \* iter_files("/p")
RootRelP == MkPath(FALSE, << <<"p">> >>)   \* iter_files("p"), from "/"
RootSlash == MkPath(TRUE, <<>>)            \* iter_files("/")

Args(root, rootNode, patterns, ignore, absolute, follow, max_depth, err) ==
  [root |-> root, rootNode |-> rootNode, patterns |-> patterns,
   ignore_patterns |-> ignore, absolute |-> absolute,
   follow_symlinks |-> follow, max_depth |-> max_depth, err |-> err]

\* No generator has run; no pattern is being typed.
IdleWalk(run2) ==
  /\ state = [w \in Walkers |-> IF w = 1 \/ run2 THEN "idle" ELSE "done"]
  /\ stack = [w \in Walkers |-> <<>>]
  /\ visited = [w \in Walkers |-> {}]
  /\ yielded = [w \in Walkers |-> <<>>]
  /\ listed = [w \in Walkers |-> <<>>]

IdleRe == pattern = <<>> /\ regex = <<>> /\ phase = "off" /\ subject = <<>> /\ result = <<>>

\* A Library as constructed with hooks disabled, and no call of call_hooks.
IdleHooks ==
  /\ hooks_enabled = FALSE /\ in_call_hooks = FALSE /\ hookStack = <<>>
  /\ keywords = 0 /\ run_keyword_count = 0 /\ reentry_count = 0
  /\ outerCalls = 0 /\ ended = <<>>

\* Trees with symlinks to directories and files, walked from /p with either
\* symlink policy and any depth limit; the second call is the same walk
\* without the depth limit.
Init ==
  /\ \E links \in LinkSets(LinksIn({1, 2, 3, 4}, Dirs \cup {7}), MaxLinks),
        rev \in BOOLEAN, linkFirst \in BOOLEAN :
       tree = TreeOf(links, rev, linkFirst)
  /\ \E follow \in BOOLEAN, depth \in {NoDepth} \cup 0..MaxDepth :
       arg = [w \in Walkers |->
                Args(RootP, 1, NonePatterns, NonePatterns, FALSE, follow,
                     IF w = 1 THEN depth ELSE NoDepth, NoErr)]
  /\ IdleWalk(TRUE)
  /\ IdleRe
  /\ IdleHooks

Spec == Init /\ [][Next]_vars

\* Trees with symlinks to files and directories inside and outside /p, walked
\* from "/p", from "p" (relative) and from "/", with and without absolute.
InitSym ==
  /\ \E links \in LinkSets(LinksIn({1, 2, 3, 4}, {2, 5, 6, 7, 10, Dangling}), MaxLinks),
        linkFirst \in BOOLEAN :
       tree = TreeOf(links, FALSE, linkFirst)
  /\ \E root \in {<<RootP, 1>>, <<RootRelP, 1>>, <<RootSlash, 0>>},
        absolute \in BOOLEAN, follow \in BOOLEAN :
       arg = [w \in Walkers |->
                Args(root[1], root[2], NonePatterns, NonePatterns, absolute, follow,
                     NoDepth, NoErr)]
  /\ IdleWalk(FALSE)
  /\ IdleRe
  /\ IdleHooks

SpecSym == InitSym /\ [][Next]_vars

\* The include and exclude sets tried in SpecPat.
IncludeSets ==
  {NonePatterns, Patterns(<<>>), Patterns(<< <<"*", "*", "/", "*", "g">> >>),
   Patterns(<< <<"f">>, <<"*", "*", "/", "k">> >>)}
ExcludeSets ==
  {NonePatterns, Patterns(<<>>), Patterns(<< <<"a">> >>),
   Patterns(<< <<"*", "*", "/", "c">> >>)}

\* An argument given as an empty collection, replaced by None.
NoneForEmpty(ps) == IF ps.list = <<>> THEN NonePatterns ELSE ps

\* Trees with symlinks into /p/a, walked from /p with include and exclude
\* patterns; the second call gives None where the first gives an empty list.
InitPat ==
  /\ \E links \in LinkSets(LinksIn({1, 3, 4}, {2, 4, 7, 9}), MaxLinks), rev \in BOOLEAN :
       tree = TreeOf(links, rev, FALSE)
  /\ \E inc \in IncludeSets, exc \in ExcludeSets, follow \in BOOLEAN :
       arg = [w \in Walkers |->
                Args(RootP, 1,
                     IF w = 1 THEN inc ELSE NoneForEmpty(inc),
                     IF w = 1 THEN exc ELSE NoneForEmpty(exc),
                     FALSE, follow, NoDepth, NoErr)]
  /\ IdleWalk(TRUE)
  /\ IdleRe
  /\ IdleHooks

SpecPat == InitPat /\ [][Next]_vars

\* The proper descendants of a directory in the real tree.
RECURSIVE Below(_)
Below(d) ==
  LET kids == {RealChildren(d)[k] : k \in 1..Len(RealChildren(d))}
  IN kids \cup UNION {Below(k) : k \in kids \cap Dirs}

\* Trees in which one directory fails: its listing raises, its entries cannot
\* be inspected (then no symlink leads into it), or it holds the one symlink
\* whose target cannot be inspected. The second call sees that directory
\* empty and nothing failing.
InitErr ==
  /\ \E links \in LinkSets(LinksIn({1, 2, 3}, {3, 4, 8, Denied}), MaxLinks),
        rev \in BOOLEAN, linkFirst \in BOOLEAN, follow \in BOOLEAN,
        err \in {[kind |-> k, node |-> d] : k \in {"none", "list", "nosearch"}, d \in {1, 2, 3, 4}} :
       LET denied == {l \in links : l.target = Denied}
           failing == IF err.kind = "none" THEN (CHOOSE l \in denied : TRUE).dir ELSE err.node
       IN /\ IF err.kind = "none" THEN Cardinality(denied) = 1 ELSE denied = {}
          /\ err.kind = "nosearch" => \A l \in links : l.target \notin Below(err.node)
          /\ tree = TreeOf(links, rev, linkFirst)
          /\ arg = [w \in Walkers |->
                      Args(RootP, 1, NonePatterns, NonePatterns, FALSE, follow, NoDepth,
                           IF w = 1 THEN (IF err.kind = "none" THEN NoErr ELSE err)
                           ELSE [kind |-> "empty", node |-> failing])]
  /\ IdleWalk(TRUE)
  /\ IdleRe
  /\ IdleHooks

SpecErr == InitErr /\ [][Next]_vars

\* Trees in which the stat of one directory raises OSError each time it is
\* called while the directory can be listed, walked from /p under either
\* symlink policy. A walk that follows a symlink leading from the failing
\* directory or from below it back to it has the depth limit MaxDepth: without
\* a limit it would recurse until the interpreter's recursion limit.
InitStat ==
  /\ \E links \in LinkSets(LinksIn({1, 2, 3}, {2, 3, 4, 8}), MaxLinks),
        rev \in BOOLEAN, linkFirst \in BOOLEAN, follow \in BOOLEAN,
        max_depth \in {NoDepth, MaxDepth}, d \in {1, 2, 3, 4} :
       /\ (follow /\ max_depth = NoDepth) =>
            \A l \in links : ~(l.target = d /\ l.dir \in {d} \cup Below(d))
       /\ tree = TreeOf(links, rev, linkFirst)
       /\ arg = [w \in Walkers |->
                   Args(RootP, 1, NonePatterns, NonePatterns, FALSE, follow, max_depth,
                        [kind |-> "stat", node |-> d])]
  /\ IdleWalk(FALSE)
  /\ IdleRe
  /\ IdleHooks

SpecStat == InitStat /\ [][Next]_vars

\* Trees with symlinks among /p, /p/a and /p/b, walked by two calls with the
\* same arguments whose pulls interleave.
InitTwo ==
  /\ \E links \in LinkSets(LinksIn({1, 2, 3}, {1, 2, 3}), MaxLinks), linkFirst \in BOOLEAN :
       tree = TreeOf(links, FALSE, linkFirst)
  /\ \E follow \in BOOLEAN, max_depth \in {NoDepth, 1} :
       arg = [w \in Walkers |->
                Args(RootP, 1, NonePatterns, NonePatterns, FALSE, follow, max_depth, NoErr)]
  /\ IdleWalk(TRUE)
  /\ IdleRe
  /\ IdleHooks

SpecTwo == InitTwo /\ [][NextTwo]_vars

\* No walk and no pattern; a Library with hooks enabled or not, and some
\* keywords carrying the hook tag.
InitHooks ==
  /\ tree = TreeOf({}, FALSE, FALSE)
  /\ arg = [w \in Walkers |->
              Args(RootP, 1, NonePatterns, NonePatterns, FALSE, FALSE, NoDepth, NoErr)]
  /\ state = [w \in Walkers |-> "done"]
  /\ stack = [w \in Walkers |-> <<>>]
  /\ visited = [w \in Walkers |-> {}]
  /\ yielded = [w \in Walkers |-> <<>>]
  /\ listed = [w \in Walkers |-> <<>>]
  /\ IdleRe
  /\ hooks_enabled \in BOOLEAN /\ keywords \in 0..MaxKeywords
  /\ in_call_hooks = FALSE /\ hookStack = <<>>
  /\ run_keyword_count = 0 /\ reentry_count = 0 /\ outerCalls = 0 /\ ended = <<>>

SpecHooks == InitHooks /\ [][NextHooks]_vars

\* No walk; a pattern is typed and compiled.
InitRe ==
  /\ tree = TreeOf({}, FALSE, FALSE)
  /\ arg = [w \in Walkers |->
              Args(RootP, 1, NonePatterns, NonePatterns, FALSE, FALSE, NoDepth, NoErr)]
  /\ state = [w \in Walkers |-> "done"]
  /\ stack = [w \in Walkers |-> <<>>]
  /\ visited = [w \in Walkers |-> {}]
  /\ yielded = [w \in Walkers |-> <<>>]
  /\ listed = [w \in Walkers |-> <<>>]
  /\ pattern = <<>> /\ regex = <<>> /\ phase = "typing" /\ subject = <<>> /\ result = <<>>
  /\ IdleHooks

SpecRe == InitRe /\ [][NextRe]_vars

\* No walk; a pattern and a path text are typed and matched.
InitMatch == InitRe

SpecMatch == InitMatch /\ [][NextMatch]_vars

\* ------------------------------------------------------------ properties
Done(w) == state[w] = "done"

\* Directory d holds a symlink that leads to t.
HasLink(d, t) == \E k \in 1..Len(tree[d]) : tree[d][k].kind = "link" /\ tree[d][k].node = t

Paths(w) == {yielded[w][k].path : k \in 1..Len(yielded[w])}
FileNodes(w) == {yielded[w][k].node : k \in 1..Len(yielded[w])} \cap Files

\* How often walker w has yielded the regular file n as a directory's own
\* (non-symlink) entry.
TimesYielded(w, n) ==
  Cardinality({k \in 1..Len(yielded[w]) : yielded[w][k].node = n /\ ~yielded[w][k].link})

RECURSIVE EntriesLeft(_)
EntriesLeft(frames) ==
  IF frames = <<>> THEN 0 ELSE Len(frames[1].rest) + EntriesLeft(Tail(frames))

RECURSIVE MaxOf(_)
MaxOf(S) == IF S = {} THEN 0
            ELSE LET x == CHOOSE y \in S : TRUE
                     m == MaxOf(S \ {x})
                 IN IF x > m THEN x ELSE m

\* The most entries a directory of the tree holds.
Fan == MaxOf({Len(tree[d]) : d \in Dirs})

\* What a running traversal has left: the directories not yet recorded in
\* _visited, each worth more than a full listing, plus the entries left in
\* the suspended activations.
Measure(w) == Cardinality(Dirs \ visited[w]) * (Fan + 1) + EntriesLeft(stack[w])

\* C1: whatever the symlinks (self-loops and longer cycles included), the
\* symlink policy and the depth limit, a running traversal always has an entry
\* to deal with and every pull strictly lowers Measure, a natural number: the
\* traversal is exhausted after finitely many steps.
C1_Terminates ==
  [][\A w \in Walkers :
       state[w] = "running" =>
         /\ stack[w] # <<>> /\ stack[w][Len(stack[w])].rest # <<>>
         /\ (stack'[w] # stack[w] => Measure(w)' < Measure(w))
         /\ state'[w] \in {"running", "done"}]_vars

\* A walk that followed symlinks is exhausted on a tree with the self-loop
\* /p/l -> /p and with a two-directory cycle.
C1_Witness ==
  \E w \in Walkers :
    /\ Done(w) /\ arg[w].follow_symlinks /\ arg[w].max_depth = NoDepth
    /\ \/ HasLink(1, 1)
       \/ HasLink(2, 3) /\ HasLink(3, 2)
    /\ Len(yielded[w]) >= 4

\* The files stored below the root /p.
FilesBelowP == {6, 7, 8, 9}

MutualCycle == HasLink(2, 3) /\ HasLink(3, 2)

\* C2: on a tree with /p/a/l -> /p/b and /p/b/l -> /p/a, walked without
\* patterns and depth limit under either symlink policy and in any order, no
\* real file is ever yielded twice, and an exhausted walk has yielded every
\* real file exactly once.
C2_MutualCycleOnce ==
  \A w \in Walkers :
    (MutualCycle /\ arg[w].max_depth = NoDepth) =>
      \A n \in FilesBelowP :
        /\ TimesYielded(w, n) <= 1
        /\ Done(w) => TimesYielded(w, n) = 1

C2_Witness ==
  /\ MutualCycle /\ Done(1) /\ arg[1].follow_symlinks /\ arg[1].max_depth = NoDepth
  /\ \A n \in FilesBelowP : TimesYielded(1, n) = 1
  /\ \E k \in 1..Len(listed[1]) : Len(listed[1][k].path.names) = 3

\* Walker 2 is walker 1 without the depth limit.
DepthPair ==
  /\ Done(1) /\ Done(2)
  /\ arg[1].max_depth # NoDepth
  /\ arg[2] = [arg[1] EXCEPT !.max_depth = NoDepth]

WithinDepth(w) ==
  \A k \in 1..Len(yielded[w]) : Len(yielded[w][k].trail) <= arg[w].max_depth

\* C5 as claimed: with max_depth=N the paths yielded are a subset of the paths
\* yielded without limit, for both symlink policies, and none lies below
\* depth N.
C5_Original == DepthPair => (Paths(1) \subseteq Paths(2) /\ WithinDepth(1))

\* C5 amended: the paths are a subset when symlinks are not followed; when
\* they are followed (and no pattern is given) the files are a subset by
\* identity; under both policies no yielded path lies below depth N.
C5_DepthSubset ==
  DepthPair =>
    /\ ~arg[1].follow_symlinks => Paths(1) \subseteq Paths(2)
    /\ FileNodes(1) \subseteq FileNodes(2)
    /\ WithinDepth(1)

C5_Witness ==
  /\ DepthPair /\ arg[1].max_depth = 2
  /\ Paths(1) # {} /\ Paths(1) # Paths(2) /\ Paths(1) \subseteq Paths(2)

RECURSIVE IsUnder(_, _)
\* Node n is directory r or lies below it in the real tree.
IsUnder(n, r) == n = r \/ (n \in 1..10 /\ IsUnder(ParentOf[n], r))

\* Walker w has yielded the entry whose path in the walk is f.
YieldedAs(w, f) == \E k \in 1..Len(yielded[w]) : yielded[w][k].path = YieldPath(w, f)

\* C3 as claimed: with follow_symlinks=false and no patterns, for every root
\* (the filesystem root included), a symlink to a regular file in a listed
\* directory is yielded if and only if its target lies in the subtree of the
\* root; /pe/s is outside the root /p.
C3_Original ==
  (Done(1) /\ ~arg[1].follow_symlinks) =>
    \A k \in 1..Len(listed[1]) :
      \A j \in 1..Len(tree[listed[1][k].node]) :
        LET e == tree[listed[1][k].node][j] IN
        (e.kind = "link" /\ e.node \in Files) =>
          (YieldedAs(1, Child(listed[1][k].path, e.name)) <=> IsUnder(e.node, arg[1].rootNode))

RECURSIVE Lookup(_, _)
\* The node the names lead to from directory d, symlinks followed; -3 where
\* no such entry exists.
Lookup(d, names) ==
  IF names = <<>> THEN d
  ELSE IF d \notin Dirs THEN 0 - 3
  ELSE LET hits == {j \in 1..Len(tree[d]) : tree[d][j].name = Head(names)}
       IN IF hits = {} THEN 0 - 3
          ELSE Lookup(tree[d][CHOOSE j \in hits : TRUE].node, Tail(names))

\* C7 as claimed: with absolute=false a yielded path is relative and leads
\* from the root to the file (the root's components are no part of it); with
\* absolute=true it is absolute.
C7_Original ==
  \A w \in Walkers : \A k \in 1..Len(yielded[w]) :
    LET y == yielded[w][k] IN
    IF arg[w].absolute THEN y.path.abs
    ELSE ~y.path.abs /\ Lookup(arg[w].rootNode, y.path.names) = y.node

\* C7 amended: with absolute=false a yielded path is the root as passed,
\* joined with the names that lead from the root to the file: it is relative
\* exactly when the root passed is relative and begins with the root's
\* components; with absolute=true it is that path made absolute.
C7_RootJoined ==
  \A w \in Walkers : \A k \in 1..Len(yielded[w]) :
    LET y == yielded[w][k]
        root == arg[w].root
        below == SubSeq(y.path.names, Len(root.names) + 1, Len(y.path.names))
    IN /\ y.path.abs = (arg[w].absolute \/ root.abs)
       /\ Len(y.path.names) > Len(root.names)
       /\ SubSeq(y.path.names, 1, Len(root.names)) = root.names
       /\ Lookup(arg[w].rootNode, below) = y.node

\* The relative root "p" walked with absolute=false has yielded p/a/c/k.
C7_Witness ==
  /\ Done(1) /\ arg[1].root = RootRelP /\ ~arg[1].absolute
  /\ \E k \in 1..Len(yielded[1]) :
       /\ yielded[1][k].path = MkPath(FALSE, <<NameOf[1], NameOf[2], NameOf[4], NameOf[9]>>)
       /\ yielded[1][k].node = 9

\* The names of directory or file n relative to the root /p.
RelNames(n) == SubSeq(RealPath(n), 2, Len(RealPath(n)))

\* The directories below /p whose root-relative path an exclude pattern of
\* walker w matches.
ExcludedDirs(w) ==
  {d \in {2, 3, 4} : /\ ~arg[w].ignore_patterns.none
                     /\ AnyMatches(arg[w].ignore_patterns.list, MkPath(FALSE, RelNames(d)))}

\* An exclude pattern of walker w matches a leading part of the names.
ExcludedPath(w, names) ==
  /\ ~arg[w].ignore_patterns.none
  /\ \E n \in 1..Len(names) :
       AnyMatches(arg[w].ignore_patterns.list, MkPath(FALSE, SubSeq(names, 1, n)))

\* C4 as claimed: no file stored in or below a directory whose root-relative
\* path an exclude pattern matches is yielded under any path, and that
\* directory is never listed.
C4_Original ==
  \A w \in Walkers : \A d \in ExcludedDirs(w) :
    /\ \A k \in 1..Len(yielded[w]) : yielded[w][k].node \notin Below(d)
    /\ \A k \in 1..Len(listed[w]) : listed[w][k].node # d

\* C4 amended: no file is yielded, and no directory is listed, under a path
\* of which the root-relative form or a leading part of it matches an exclude
\* pattern, whatever the include patterns and the symlink policy.
C4_ExcludedPaths ==
  \A w \in Walkers :
    /\ \A k \in 1..Len(yielded[w]) : ~ExcludedPath(w, yielded[w][k].trail)
    /\ \A k \in 1..Len(listed[w]) :
         ~ExcludedPath(w, RelativeTo(listed[w][k].path, arg[w].root).names)

\* With "a" excluded and symlinks followed, /p/a/g has been yielded through
\* the symlink /p/b/l -> /p/a, and nothing below the path a.
C4_Witness ==
  /\ Done(1) /\ arg[1].follow_symlinks
  /\ arg[1].ignore_patterns = Patterns(<< <<"a">> >>)
  /\ ~arg[1].patterns.none /\ arg[1].patterns.list # <<>>
  /\ \E k \in 1..Len(yielded[1]) :
       yielded[1][k].node = 7 /\ yielded[1][k].trail = <<NameOf[3], LinkName, NameOf[7]>>

\* C6 as claimed: a call with an empty include or exclude collection yields
\* what the call with None in its place yields.
C6_Original ==
  (Done(1) /\ Done(2)
     /\ arg[2] = [arg[1] EXCEPT !.patterns = NoneForEmpty(@),
                                !.ignore_patterns = NoneForEmpty(@)])
    => yielded[1] = yielded[2]

\* C8: an error of listing a directory or of inspecting its entries never
\* reaches the caller, and the walk yields every file that the walk seeing
\* the failing directory empty yields (under the same paths when symlinks are
\* not followed).
C8_ErrorsSkipOneDirectory ==
  /\ \A w \in Walkers : state[w] # "raised"
  /\ (Done(1) /\ Done(2) /\ arg[2].err.kind = "empty")
       => /\ FileNodes(2) \subseteq FileNodes(1)
          /\ ~arg[1].follow_symlinks => Paths(2) \subseteq Paths(1)

\* The listing of /p/a has failed, and the files of its parent and of its
\* sibling /p/b have been yielded.
C8_Witness ==
  /\ Done(1) /\ Done(2) /\ ListFails(1, 2)
  /\ FileNodes(1) = {6, 8}
  /\ \E k \in 1..Len(listed[1]) : listed[1][k].node = 3

RECURSIVE RepsOfNode(_), RepsOfItems(_), RepsOfBranches(_)
\* The quantified items of a parsed expression, nested ones included.
RepsOfNode(n) ==
  IF n.k = "rep" THEN <<n>> \o RepsOfNode(n.body)
  ELSE IF n.k = "grp" THEN RepsOfBranches(n.branches)
  ELSE <<>>

RepsOfItems(items) ==
  IF items = <<>> THEN <<>> ELSE RepsOfNode(items[1]) \o RepsOfItems(Tail(items))

RepsOfBranches(branches) ==
  IF branches = <<>> THEN <<>>
  ELSE RepsOfItems(branches[1]) \o RepsOfBranches(Tail(branches))

\* A quantifier is applied to a group that a "{" of the pattern opened.
QuantifiedUserGroup(reps) ==
  \E k \in 1..Len(reps) : reps[k].body.k = "grp" /\ reps[k].body.o = "open"

\* A quantified group holds a quantifier applied to an alternation.
NestedQuantifiedAlternation(reps) ==
  \E k \in 1..Len(reps) :
    /\ reps[k].body.k = "grp"
    /\ \E inner \in {RepsOfBranches(reps[k].body.branches)} :
         \E j \in 1..Len(inner) :
           inner[j].body.k = "grp" /\ Len(inner[j].body.branches) >= 2

\* C10 as claimed: in the regex built for a pattern (and accepted by
\* re.compile) no quantifier is applied to a group opened by a "{" of the
\* pattern, and no quantified group holds a quantifier applied to an
\* alternation.
C10_Original ==
  phase = "compiled" =>
    \A c \in {ReCompile(regex)} :
      c.ok => \A reps \in {RepsOfBranches(c.branches)} :
                ~QuantifiedUserGroup(reps) /\ ~NestedQuantifiedAlternation(reps)


\* The characters that are glob syntax.
GlobSyntax == {"?", "*", "[", "]", "{", "}", ","}

\* How often character c occurs in text.
Count(c, text) == Cardinality({k \in 1..Len(text) : text[k] = c})

\* The path text is as pathlib writes it.
NormalForm(text) == StrPath(text) = text

\* The pattern is x ? y with x and y free of glob syntax, its "?" at q, and
\* the path text is x c y.
QuestionCase(q) ==
  /\ q \in 1..Len(pattern) /\ pattern[q] = "?"
  /\ \A k \in 1..Len(pattern) : k # q => pattern[k] \notin GlobSyntax
  /\ Len(subject) = Len(pattern)
  /\ \A k \in 1..Len(pattern) : k # q => subject[k] = pattern[k]

\* C11 as claimed: for all x, y without glob syntax and every character c,
\* matches(x ? y, x c y) is true if and only if c is not "/".
C11_Original ==
  phase = "matched" =>
    \A q \in 1..Len(pattern) : QuestionCase(q) => result[0] = (subject[q] # "/")

\* C11 amended: the "?" never matches "/", whatever the path text; and when
\* x c y is a path text pathlib leaves unchanged, matches(x ? y, x c y) is
\* true if and only if c is not "/".
C11_QuestionMark ==
  phase = "matched" =>
    \A q \in 1..Len(pattern) :
      QuestionCase(q) =>
        /\ subject[q] = "/" => result[0] = FALSE
        /\ NormalForm(subject) => result[0] = (subject[q] # "/")

\* "a?a" has been matched against "a.a" and against "a/a".
C11_Witness ==
  /\ phase = "matched" /\ pattern = <<"a", "?", "a">>
  /\ \/ subject = <<"a", ".", "a">> /\ result[0] = TRUE
     \/ subject = <<"a", "/", "a">> /\ result[0] = FALSE

\* No two stars of the pattern are adjacent.
NoDoubleStar == \A k \in 1..(Len(pattern) - 1) : ~(pattern[k] = "*" /\ pattern[k + 1] = "*")

\* No star run of the pattern is translated as a globstar.
NoGlobstar == \A k \in 1..Len(regex) : regex[k].o \notin {"dirs", "tail"}

\* C12 as claimed: a pattern without "**" and with k separators matches only
\* paths with exactly k separators.
C12_Original ==
  (phase = "matched" /\ NoDoubleStar /\ result[0] = TRUE) =>
    Count("/", subject) = Count("/", pattern)

\* C12 amended: a pattern of literals, "?", "*" and k separators in which no
\* star run is a qualifying globstar matches only path texts that pathlib
\* writes with exactly k separators.
C12_StarStaysInSegment ==
  (phase = "matched" /\ NoGlobstar /\ result[0] = TRUE) =>
    Count("/", StrPath(subject)) = Count("/", pattern)

\* "*/a" has matched "a/a", and "*a" has not matched "a/a".
C12_Witness ==
  /\ phase = "matched" /\ subject = <<"a", "/", "a">>
  /\ \/ pattern = <<"*", "/", "a">> /\ result[0] = TRUE
     \/ pattern = <<"*", "a">> /\ result[0] = FALSE

\* C13: for every remainder x and path p, matching p against "**/" x,
\* "**/**/" x and "**/**/**/" x gives the same.
C13_FoldingIdempotent ==
  phase = "matched" => (result[1] = result[2] /\ result[2] = result[3])

\* "**/a", "**/**/a" and "**/**/**/a" have matched "a/a".
C13_Witness ==
  /\ phase = "matched" /\ pattern = <<"a">> /\ subject = <<"a", "/", "a">>
  /\ result[1] = TRUE /\ result[3] = TRUE /\ result[0] = FALSE

\* The pattern is d "/**", d free of glob syntax.
TailGlobstarOf(d) ==
  /\ pattern = d \o <<"/", "*", "*">>
  /\ \A k \in 1..Len(d) : d[k] \notin GlobSyntax

\* C14 as claimed: for every literal d and every r (empty too),
\* matches(d "/**", d "/" r) is true, and "**" matches every path.
C14_Original ==
  phase = "matched" =>
    /\ pattern = <<"*", "*">> => result[0] = TRUE
    /\ \A n \in 0..Len(pattern) :
         (TailGlobstarOf(SubSeq(pattern, 1, n))
            /\ StartsWith(subject, SubSeq(pattern, 1, n + 1))) => result[0] = TRUE

\* C14 amended: matches(d "/**", p) is true exactly when the text pathlib
\* writes for p starts with d "/", whatever follows, separators included;
\* and "**" matches every path.
C14_TailGlobstar ==
  phase = "matched" =>
    /\ pattern = <<"*", "*">> => result[0] = TRUE
    /\ \A n \in 0..Len(pattern) :
         TailGlobstarOf(SubSeq(pattern, 1, n)) =>
           result[0] = StartsWith(StrPath(subject), SubSeq(pattern, 1, n + 1))

\* "/**" has matched "/a/a", and "a/**" has matched "a/.a".
C14_Witness ==
  /\ phase = "matched" /\ result[0] = TRUE
  /\ \/ pattern = <<"/", "*", "*">> /\ subject = <<"/", "a", "/", "a">>
     \/ pattern = <<"a", "/", "*", "*">> /\ subject = <<"a", "/", ".", "a">>


\* The braces of the pattern are unmatched or mis-nested: some "}" has no
\* "{" before it to close, or some "{" is never closed.
BracesMalformed ==
  \/ \E n \in 1..Len(pattern) :
       Count("}", SubSeq(pattern, 1, n)) > Count("{", SubSeq(pattern, 1, n))
  \/ Count("{", pattern) # Count("}", pattern)

\* C15 as claimed: Pattern(pattern) of a pattern with unmatched or mis-nested
\* braces (and no bracket) does not fail: re.compile accepts the translation.
C15_Original ==
  (phase = "compiled" /\ BracesMalformed /\ Count("[", pattern) = 0) =>
    ReCompile(regex).ok

\* C20 as claimed: the regex text of "**/**/" x is the regex text of "**/" x,
\* with the group "(?:[^/]+/)*" once.
C20_Original ==
  (phase = "compiled" /\ StartsWith(pattern, GlobstarRuns(2))) =>
    /\ Text(regex) = Text(GlobToRe(SubSeq(pattern, 4, Len(pattern))))
    /\ Cardinality({k \in 1..Len(regex) : regex[k].o = "dirs"}) = Len(ReGlobDirs)


\* One sequence is the beginning of the other.
Comparable(s, t) ==
  IF Len(s) <= Len(t) THEN SubSeq(t, 1, Len(s)) = s ELSE SubSeq(s, 1, Len(t)) = t

\* C16: two calls with the same arguments on the same tree, their pulls
\* interleaved in any order (one after the other included): at every moment
\* what one has yielded and listed is the beginning of what the other has,
\* and once both are exhausted they have yielded the same sequence and listed
\* the same directories; a walk that may list the root does list it, whatever
\* the other has recorded.
C16_IndependentCalls ==
  /\ Comparable(yielded[1], yielded[2])
  /\ Comparable(listed[1], listed[2])
  /\ (Done(1) /\ Done(2)) =>
       /\ yielded[1] = yielded[2] /\ listed[1] = listed[2] /\ visited[1] = visited[2]
  /\ \A w \in Walkers :
       (state[w] # "idle" /\ arg[w].max_depth # 0) =>
         (listed[w] # <<>> /\ listed[w][1].node = arg[w].rootNode)

\* Both calls are running on a tree with a symlink cycle, symlinks followed:
\* the first has yielded two files, the second one, and each has recorded
\* directories in its own set.
C16_Witness ==
  /\ state[1] = "running" /\ state[2] = "running"
  /\ arg[1].follow_symlinks /\ (HasLink(1, 1) \/ (HasLink(2, 3) /\ HasLink(3, 2)))
  /\ Len(yielded[1]) = 2 /\ Len(yielded[2]) = 1
  /\ visited[1] # visited[2] /\ visited[2] # {}


\* The name of a symlink is among the names.
HasLinkName(names) == \E k \in 1..Len(names) : names[k] = LinkName

\* The include and exclude patterns of walker w select the real file n.
Selected(w, n) ==
  /\ arg[w].patterns.none \/ AnyMatches(arg[w].patterns.list, MkPath(FALSE, RelNames(n)))
  /\ ~ExcludedPath(w, RelNames(n))

\* C17: with follow_symlinks=false no directory is listed under a path that
\* goes through a symlink, no file is yielded under a path with a symlink as
\* a directory component, no symlink to a directory is itself yielded,
\* and the exhausted walk (self-referential symlinks included) has yielded
\* every real file the patterns select exactly once and no other real file
\* (no max_depth; the include set is None or holds patterns).
C17_SymlinkDirsSkipped ==
  \A w \in Walkers :
    (~arg[w].follow_symlinks /\ (arg[w].patterns.none \/ arg[w].patterns.list # <<>>)) =>
      /\ \A k \in 1..Len(listed[w]) :
           ~HasLinkName(RelativeTo(listed[w][k].path, arg[w].root).names)
      /\ \A k \in 1..Len(yielded[w]) :
           LET y == yielded[w][k] IN
           /\ ~HasLinkName(SubSeq(y.trail, 1, Len(y.trail) - 1))
           /\ y.link => y.node \notin Dirs
      /\ (Done(w) /\ arg[w].max_depth = NoDepth) =>
           \A n \in FilesBelowP : TimesYielded(w, n) = (IF Selected(w, n) THEN 1 ELSE 0)

\* A walk with include pattern "**/*g" of a tree with the self-referential
\* symlink /p/a/c/l -> /p/a/c and a symlink /p/l -> /p/a is exhausted and has
\* yielded a/g once and nothing else.
C17_Witness ==
  /\ Done(1) /\ ~arg[1].follow_symlinks
  /\ HasLink(4, 4) /\ HasLink(1, 2)
  /\ arg[1].patterns = Patterns(<< <<"*", "*", "/", "*", "g">> >>)
  /\ arg[1].ignore_patterns.none
  /\ Len(yielded[1]) = 1 /\ yielded[1][1].node = 7


\* How many call_hooks activations are running.
HooksRunning == Cardinality({k \in 1..Len(hookStack) : hookStack[k].k = "call_hooks"})

\* C18: with hooks enabled, a call of call_hooks made by a running hook
\* keyword changes nothing (it returns with no keyword run), at most one
\* call_hooks is ever running, and an outermost call that has returned has
\* run each keyword that carries the hook tag exactly once, however often the
\* keywords called back.
C18_ReentryRunsNothing ==
  [][hooks_enabled =>
       /\ reentry_count' > reentry_count =>
            /\ run_keyword_count' = run_keyword_count
            /\ hookStack' = hookStack
            /\ in_call_hooks' = in_call_hooks
       /\ HooksRunning' <= 1
       /\ run_keyword_count' <= keywords
       /\ (hookStack' = <<>> /\ hookStack # <<>> /\ Len(ended') > Len(ended)
             /\ ended'[Len(ended')] = "return") => run_keyword_count' = keywords]_vars

\* One outermost call with one hook keyword that called back twice has
\* returned, and the keyword has run once.
C18_Witness ==
  /\ hooks_enabled /\ keywords = 1 /\ hookStack = <<>>
  /\ ended = <<"return">> /\ reentry_count = MaxReentries /\ run_keyword_count = 1

\* C19: whenever no call_hooks is running (none made yet, or the outermost
\* one has ended by return or by an exception of a hook keyword) the guard
\* is false; with hooks enabled a further call that has returned has run the
\* keywords; with hooks disabled nothing is run and the guard stays false.
C19_GuardReset ==
  /\ hookStack = <<>> => in_call_hooks = FALSE
  /\ Len(ended) = outerCalls => hookStack = <<>>
  /\ (hooks_enabled /\ hookStack = <<>> /\ ended # <<>> /\ ended[Len(ended)] = "return")
       => run_keyword_count = keywords
  /\ ~hooks_enabled => (run_keyword_count = 0 /\ ~in_call_hooks /\ hookStack = <<>>)

\* After a first outermost call ended by an exception, a second one has run
\* the hook keyword and returned.
C19_Witness ==
  /\ hooks_enabled /\ keywords = 1 /\ hookStack = <<>> /\ ~in_call_hooks
  /\ ended = <<"raise", "return">> /\ run_keyword_count = 1

\* A brace group is open at position k of the pattern: more "{" than "}"
\* stand before it.
OpenAt(k) ==
  Count("{", SubSeq(pattern, 1, k - 1)) > Count("}", SubSeq(pattern, 1, k - 1))

\* What the commas of the pattern were translated to, in order: the "|" of
\* an alternation or the "," of an escaped comma.
CommaMarks(tagged) ==
  SelectSeq(tagged, LAMBDA t : t.o = "alt" \/ (t.o = "comma" /\ t.c = ","))

\* C21 as claimed: every "," of the pattern is translated to the alternation
\* "|" exactly when a brace group is open at its position (more "{" than "}"
\* read so far), a comma after a closed inner group of an open outer group
\* included, and to a literal comma otherwise; stated for the patterns whose
\* braces are matched, where the count and the nesting agree.
C21_Original ==
  (phase = "compiled" /\ ~BracesMalformed) =>
    \E marks \in {CommaMarks(regex)} :
      /\ Len(marks) = Count(",", pattern)
      /\ \A k \in 1..Len(pattern) :
           pattern[k] = "," =>
             (marks[Count(",", SubSeq(pattern, 1, k))].o = "alt" <=> OpenAt(k))

\* The directories walker w has listed.
ListedNodes(w) == {listed[w][k].node : k \in 1..Len(listed[w])}

\* C22 as claimed: a directory whose stat fails is skipped silently: it is
\* never listed, no file stored in it or below it is yielded by a walk that
\* does not follow symlinks, and no error reaches the caller; and every
\* directory that has been listed has its identity in the visited set.
C22_Original ==
  \A w \in Walkers :
    /\ state[w] # "raised"
    /\ \A d \in Dirs :
         StatFails(w, d) =>
           /\ d \notin ListedNodes(w)
           /\ ~arg[w].follow_symlinks =>
                \A k \in 1..Len(yielded[w]) :
                  yielded[w][k].link \/ yielded[w][k].node \notin Below(d)
    /\ ListedNodes(w) \subseteq visited[w]

\* The depth of a directory of the real tree below the root /p (the root: 0).
RealDepth(d) == Len(RelNames(d))

\* The walk of walker w is exhausted and had the depth limit max_depth=N.
DepthLimited(w) == Done(w) /\ arg[w].max_depth # NoDepth

\* C23 as claimed: with max_depth=N, under either symlink policy, a
\* directory is listed only at a depth below N, every directory of the tree
\* whose depth is below N has been listed and the files directly inside it
\* yielded, no file is yielded from a directory at depth N or deeper, and
\* max_depth=0 lists and yields nothing.
C23_Original ==
  DepthLimited(1) =>
    /\ \A k \in 1..Len(listed[1]) : listed[1][k].depth < arg[1].max_depth
    /\ \A d \in {1, 2, 3, 4} : RealDepth(d) < arg[1].max_depth => d \in ListedNodes(1)
    /\ \A n \in FilesBelowP :
         RealDepth(ParentOf[n]) < arg[1].max_depth => n \in FileNodes(1)
    /\ WithinDepth(1)
    /\ arg[1].max_depth = 0 => (yielded[1] = <<>> /\ listed[1] = <<>>)

\* C26 as claimed: with max_depth=N and follow_symlinks=true, whatever the
\* symlinks and the order of enumeration, the exhausted walk has yielded,
\* under some path, every regular file whose directory lies fewer than N
\* real directory levels below the root.
C26_Original ==
  (DepthLimited(1) /\ arg[1].follow_symlinks) =>
    \A n \in FilesBelowP :
      RealDepth(ParentOf[n]) < arg[1].max_depth =>
        \E k \in 1..Len(yielded[1]) : yielded[1][k].node = n

\* The text is free of glob syntax.
Literal(x) == \A k \in 1..Len(x) : x[k] \notin GlobSyntax

\* t is x, or s1/s2/.../sk/x with k >= 1 segments that are non-empty and hold
\* no separator.
SegmentsThen(x, t) ==
  \/ t = x
  \/ \E n \in 1..(Len(t) - Len(x)) :
       /\ SubSeq(t, n + 1, Len(t)) = x
       /\ t[1] # "/" /\ t[n] = "/"
       /\ \A k \in 1..(n - 1) : ~(t[k] = "/" /\ t[k + 1] = "/")

\* The pattern is a non-empty remainder x without glob syntax and the path
\* text has been matched against "**/" x.
GlobstarCase == phase = "matched" /\ pattern # <<>> /\ Literal(pattern)

OnStack(w) == {stack[w][k].node : k \in 1..Len(stack[w])}

\* The entry walker w deals with next.
NextEntry(w) == Head(stack[w][Len(stack[w])].rest)

\* C25: in every traversal (the identity lookups succeeding) the identity of
\* a directory is in the visited set from before its first entry is examined
\* and while its entries are examined, and no identity ever leaves the set; a
\* followed symlink that leads back to a directory from within its own
\* subtree (to a directory whose entries are being examined) is returned
\* from at once: nothing is listed, nothing yielded, no activation added.
C25_MarkBeforeRecurse ==
  [][\A w \in Walkers :
       state[w] = "running" =>
         /\ OnStack(w) \subseteq visited[w]
         /\ visited[w] \subseteq visited'[w]
         /\ OnStack(w)' \subseteq visited'[w]
         /\ (NextEntry(w).kind = "link" /\ NextEntry(w).node \in OnStack(w)) =>
              /\ listed'[w] = listed[w]
              /\ yielded'[w] = yielded[w]
              /\ visited'[w] = visited[w]
              /\ Len(stack'[w]) <= Len(stack[w])]_vars

\* A walk that follows symlinks is about to deal with the symlink
\* /p/a/c/l -> /p/a while /p/a and /p/a/c are being examined.
C25_Witness ==
  /\ state[1] = "running" /\ arg[1].follow_symlinks /\ arg[1].max_depth = NoDepth
  /\ {2, 4} \subseteq OnStack(1)
  /\ NextEntry(1).kind = "link" /\ NextEntry(1).node = 2

\* C27 as claimed: with follow_symlinks=false every path yielded leads to an
\* existing regular file stored in the subtree of the root: no directory is
\* yielded, and no symlink, a dangling one included, whose target is not
\* inside the root.
C27_Original ==
  \A w \in Walkers :
    ~arg[w].follow_symlinks =>
      \A k \in 1..Len(yielded[w]) :
        /\ yielded[w][k].node \in Files
        /\ IsUnder(yielded[w][k].node, arg[w].rootNode)

====
